---- MODULE Spec2Model ----
(***************************************************************************)
(* Model of the coordination primitives of rayon-core:                     *)
(*   flex_scope/mod.rs  FlexScope (activate / spawn / execute_job / probe) *)
(*   tlv.rs             the thread-local value (get / set / with)          *)
(*   jobserver.rs       the jobserver token proxy                          *)
(*                                                                         *)
(* The scope is modelled with three threads: the owner "o", a worker of    *)
(* the registry that calls activate and runs jobs of the pool while it     *)
(* waits; a second worker "w" of the same registry; and "x", a thread      *)
(* that is no worker and calls spawn on the shared (Sync) scope.           *)
(***************************************************************************)
EXTENDS Integers, Sequences, FiniteSets

(* ------------------------------ bounds --------------------------------- *)
MaxJobs == 2            \* jobs spawned in one run of the model
MaxCycles == 2          \* activations of the scope in one run of the model
MaxCalls == 2           \* acquire_token calls of one thread in one run of the model
MaxDepth == 2           \* tlv::with calls in progress on one thread
PoolSize == 2           \* num_threads of each registry
MaxProxies == 3         \* Proxy instances created in one run of the model

Owner == "o"
Worker == "w"
Foreign == "x"
Threads == {Owner, Worker, Foreign}
PoolThreads == {Owner, Worker}
Ctx == {0, 1}           \* the thread-local values the model uses
Jobs == 1..MaxJobs
Units == 0..MaxJobs     \* unit 0 is the initial closure f of activate
NoUnit == -1
None == <<>>           \* Option::None of FlexScope.data
Some(r) == <<r>>        \* Option::Some
unwrap(d) == d[1]
NoPanic == -1           \* Option::None of the stored panic payload

\* two registries with their workers, and a thread that is no worker
Registries == {"A", "B"}
GlobalRegistry == "A"
LWorkers == {[registry |-> r, index |-> i] : r \in Registries, i \in 0..(PoolSize - 1)}
NonWorker == [registry |-> "null", index |-> 0]
LThreads == LWorkers \cup {NonWorker}
Storages == {1, 2}      \* the WorkerLocal objects of the model
NoCall == -1            \* current() not called on the storage
WrongThread == -2       \* current() ended in wrong_thread()

ProxyIds == 1..MaxProxies
NoProxy == 0

VARIABLES
    data,        \* FlexScope.data: None or the ActiveFlexScope record
    poisoned,    \* the Mutex around data is poisoned (a panic with the guard held)
    TLV,         \* tlv.rs TLV, one cell per thread
    tpc,         \* position of each thread
    cur,         \* the unit whose body the thread is running, or NoUnit
    saved,       \* the value the running job restores when it ends
    tlvLocal,    \* activate's local `tlv`
    result,      \* activate's local `result`: "unset", "some" or "none"
    pool,        \* job refs handed to Registry::inject_or_push and not yet taken
    ustate,      \* per unit: "none", "pending", "running", "ok", "failed"
    jtlv,        \* the tlv a job ref carries (HeapJob::new(data.tlv, ..))
    jact,        \* the activation a unit belongs to
    nspawned,    \* number of job refs created so far
    cycle,       \* number of activations started so far
    outcome,     \* how the last activate ended: "none", "returned", "reraised", "aborted"
    raised,      \* the payload activate re-raised, or NoPanic
    completions, \* history: how many times execute_job finished the unit
    lastFailed,  \* history: the unit of the activation that failed last, or NoUnit
    spawnCtx,    \* history: the context of the thread that called spawn for the job
    lastSpawn,   \* history: the result of the step just taken if it was a spawn call, else "none"
    proxy,       \* jobserver.rs LockedProxyData of the enabled proxy
    brokerPending, \* requests the HelperThread has sent and the broker has not answered
    ppc,         \* position of each thread that uses the proxy
    calls,       \* acquire_token calls each thread has made
    frames,      \* tlv::with: per thread, the Reset guards of the calls in progress
    entryTlv,    \* history: per thread, the context at the entry of each call in progress
    unwinding,   \* per thread: a panic is unwinding its stack
    lastExit,    \* history: how the step just taken left a tlv::with call, else "none"
    wl,          \* worker_local.rs: per storage, None or the WorkerLocal record
    got,         \* history: per thread and storage, the outcome of its last current()
    CURRENT_PROXY, \* jobserver.rs CURRENT_PROXY: None or the Weak of a Proxy
    strong,      \* per Proxy, the strong count of its Arc
    pstate,      \* per Proxy: "none", "alive", "dropping" (destructor running), "dropped"
    held,        \* per thread, the Proxy its Arc points to, or NoProxy
    envpc        \* per thread: "idle", or "dropping" inside the destructor of held[t]

scopeVars == <<data, poisoned>>
threadVars == <<TLV, tpc, cur, saved, tlvLocal, result>>
jobVars == <<pool, ustate, jtlv, jact, nspawned>>
histVars == <<cycle, outcome, raised, completions, lastFailed, spawnCtx>>
flexVars == <<scopeVars, threadVars, jobVars, histVars, lastSpawn>>

proxyVars == <<proxy, brokerPending, ppc, calls>>

tlvVars == <<frames, entryTlv, unwinding, lastExit>>
localVars == <<wl, got>>
envVars == <<CURRENT_PROXY, strong, pstate, held, envpc>>
otherVars == <<tlvVars, localVars, envVars>>

\* everything of the scope's model but the TLV cells
flexButTlv == <<scopeVars, tpc, cur, saved, tlvLocal, result, jobVars, histVars, lastSpawn>>

vars == <<flexVars, proxyVars, otherVars>>

(* ------------------------------- tlv.rs -------------------------------- *)
\* tlv::get(): the calling thread's cell
get(t) == TLV[t]

\* tlv::set(value): overwrites the calling thread's cell only
set(t, value) == [TLV EXCEPT ![t] = value]

(* --------------------------- flex_scope/mod.rs ------------------------- *)
\* ActiveFlexScope as built by activate (registry is the one registry of the model)
NewActiveFlexScope(tlv) ==
    [active_jobs |-> 1, panic |-> NoPanic, terminated |-> FALSE, tlv |-> tlv]

\* LatchProbe::probe, on an unpoisoned lock and an active scope
probeOffByOne == unwrap(data).active_jobs <= 1
probe == unwrap(data).active_jobs = 0

\* self.data.lock().unwrap() panics when the mutex is poisoned
LockFails == poisoned

\* a panic leaves the operation of thread t; the thread runs nothing further
Abort(t) ==
    /\ tpc' = [tpc EXCEPT ![t] = "aborted"]

(* ----------------------------- jobserver.rs ---------------------------- *)
\* threads that use the proxy; Main runs on the implicit token of the process
Main == "m"
PThreads == {"m", "a", "b"}
Token == "Acquired"     \* a token handle of the jobserver crate

\* #[derive(Default)] LockedProxyData, lines 5-18
DefaultLockedProxyData == [free |-> 0, waiters |-> 0, requested |-> 0, tokens |-> <<>>]

\* LockedProxyData::request_token, lines 21-24: the new state of the proxy
\* (the request to the helper thread is in RequestsSent)
request_token(p) == [p EXCEPT !.requested = @ + 1]

\* LockedProxyData::return_token, lines 26-39
return_token(p) ==
    IF p.waiters > 0
    THEN [p EXCEPT !.free = @ + 1]
    ELSE IF p.tokens = <<>>
         THEN [p EXCEPT !.free = @ + 1]
         ELSE [p EXCEPT !.tokens = SubSeq(@, 1, Len(@) - 1)]

\* return_token calls cond_var.notify_one(), line 29
return_token_never_notifies(p) == FALSE
return_token_notifies(p) == p.waiters > 0

\* LockedProxyData::take_token, lines 41-56: the result and the new state
take_token_keeps_free(p) ==
    IF p.free > 0
    THEN LET q == [p EXCEPT !.waiters = @ - 1] IN
         [ok |-> TRUE,
          p |-> IF q.requested + q.free < q.waiters THEN request_token(q) ELSE q]
    ELSE [ok |-> FALSE, p |-> p]
take_token_no_rerequest(p) ==
    IF p.free > 0
    THEN [ok |-> TRUE, p |-> [p EXCEPT !.free = @ - 1, !.waiters = @ - 1]]
    ELSE [ok |-> FALSE, p |-> p]
take_token(p) ==
    IF p.free > 0
    THEN LET q == [p EXCEPT !.free = @ - 1, !.waiters = @ - 1] IN
         [ok |-> TRUE,
          p |-> IF q.requested + q.free < q.waiters THEN request_token(q) ELSE q]
    ELSE [ok |-> FALSE, p |-> p]

\* LockedProxyData::new_requested_token, lines 58-70
new_requested_token(p) ==
    LET q == [p EXCEPT !.requested = @ - 1] IN
    IF q.waiters > 0
    THEN [q EXCEPT !.free = @ + 1, !.tokens = Append(@, Token)]
    ELSE q

\* new_requested_token calls cond_var.notify_one(), line 65
new_requested_token_notifies(p) == p.waiters > 0

\* requests sent to the helper thread by a step from proxy state p to q
RequestsSent(p, q) == IF q.requested > p.requested THEN q.requested - p.requested ELSE 0

\* Condvar::notify_one: one thread blocked in wait, if there is one, is woken
NotifyOne(pc) ==
    IF \E w \in PThreads : pc[w] = "waiting"
    THEN {[pc EXCEPT ![w] = "woken"] : w \in {w \in PThreads : pc[w] = "waiting"}}
    ELSE {pc}

Init ==
    /\ data = None
    /\ poisoned = FALSE
    /\ TLV = [t \in Threads |-> 0]  \* static TLV: Cell<usize> = Cell::new(0)
    /\ tpc = [t \in Threads |-> "idle"]
    /\ cur = [t \in Threads |-> NoUnit]
    /\ saved = [t \in Threads |-> 0]
    /\ tlvLocal = 0
    /\ result = "unset"
    /\ pool = {}
    /\ ustate = [u \in Units |-> "none"]
    /\ jtlv = [u \in Units |-> 0]
    /\ jact = [u \in Units |-> 0]
    /\ nspawned = 0
    /\ cycle = 0
    /\ outcome = "none"
    /\ raised = NoPanic
    /\ completions = [u \in Units |-> 0]
    /\ lastFailed = NoUnit
    /\ spawnCtx = [u \in Units |-> 0]
    /\ lastSpawn = "none"
    /\ proxy = DefaultLockedProxyData
    /\ brokerPending = 0
    /\ ppc = [t \in PThreads |-> IF t = Main THEN "holding" ELSE "idle"]
    /\ calls = [t \in PThreads |-> 0]
    /\ frames = [t \in Threads |-> <<>>]
    /\ entryTlv = [t \in Threads |-> <<>>]
    /\ unwinding = [t \in Threads |-> FALSE]
    /\ lastExit = "none"
    /\ wl = [s \in Storages |-> None]
    /\ got = [t \in LThreads |-> [s \in Storages |-> NoCall]]
    /\ CURRENT_PROXY = None   \* Mutex::new(None), line 89
    /\ strong = [p \in ProxyIds |-> 0]
    /\ pstate = [p \in ProxyIds |-> "none"]
    /\ held = [t \in PThreads |-> NoProxy]
    /\ envpc = [t \in PThreads |-> "idle"]

\* a step of the scope's threads that is no spawn call
NoSpawn == lastSpawn' = "none" /\ UNCHANGED <<proxyVars, otherVars>>

\* how an operation of thread t that panics shows in `outcome`: a panic in
\* the owner leaves activate without reaching its end
AbortOutcome(t) == IF t = Owner THEN "aborted" ELSE outcome

\* FlexScope::activate, lines 40-56: snapshot the tlv, install the state, start f
Activate ==
    /\ tpc[Owner] = "idle"
    /\ NoSpawn
    /\ cycle < MaxCycles
    /\ cycle' = cycle + 1
    /\ tlvLocal' = get(Owner)
    /\ UNCHANGED <<TLV, saved, pool, jtlv, nspawned, raised, spawnCtx>>
    /\ IF LockFails
       THEN /\ Abort(Owner)
            /\ outcome' = "aborted"
            /\ UNCHANGED <<data, poisoned, cur, result, ustate, jact, completions, lastFailed>>
       ELSE IF data # None
       THEN \* assert!(data.is_none()) fails with the guard held
            /\ Abort(Owner)
            /\ poisoned' = TRUE
            /\ outcome' = "aborted"
            /\ UNCHANGED <<data, cur, result, ustate, jact, completions, lastFailed>>
       ELSE /\ data' = Some(NewActiveFlexScope(get(Owner)))
            /\ tpc' = [tpc EXCEPT ![Owner] = "f"]
            /\ cur' = [cur EXCEPT ![Owner] = 0]
            /\ ustate' = [ustate EXCEPT ![0] = "running"]
            /\ jact' = [jact EXCEPT ![0] = cycle + 1]
            /\ result' = "unset"
            /\ outcome' = "none"
            /\ completions' = [completions EXCEPT ![0] = 0]
            /\ lastFailed' = NoUnit
            /\ UNCHANGED poisoned

\* the tlv spawn puts into the job: HeapJob::new(data.tlv, ..), line 91
CarriedTlvOfCaller(t) == get(t)
CarriedTlv(t) == unwrap(data).tlv

\* assert!(!unwrap(data).terminated, ..), line 86: TRUE when the assertion fails
TerminatedNeverChecked == FALSE
SpawnSeesTerminated == unwrap(data).terminated

\* threads that run user code which may call spawn or tlv::set
InBody(t) == tpc[t] \in {"f", "job"} /\ cur[t] # NoUnit
MayCall(t) == InBody(t) \/ (t = Foreign /\ tpc[t] = "idle")

\* the rejection of a spawn call: "none" when the call is accepted.  The
\* assertion of line 87 (active_jobs != usize::MAX) cannot fail here:
\* active_jobs never exceeds MaxJobs + 1.
SpawnRejection ==
    IF LockFails THEN "poisoned"
    ELSE IF data = None THEN "not_active"
    ELSE IF SpawnSeesTerminated THEN "terminated"
    ELSE "none"

\* FlexScope::spawn, lines 83-100.  A rejected call panics in the caller; in
\* a unit's body the panic ends the body, and execute_job's own lock().unwrap()
\* then panics on the poisoned mutex.
Spawn(t) ==
    /\ MayCall(t)
    /\ UNCHANGED <<proxyVars, otherVars>>
    /\ SpawnRejection = "none" => nspawned < MaxJobs
    /\ UNCHANGED <<TLV, cur, saved, tlvLocal, result, cycle, raised, completions,
                   lastFailed>>
    /\ IF SpawnRejection # "none"
       THEN /\ lastSpawn' = SpawnRejection
            /\ poisoned' = TRUE
            /\ IF InBody(t)
               THEN Abort(t) /\ outcome' = AbortOutcome(t)
               ELSE UNCHANGED <<tpc, outcome>>
            /\ UNCHANGED <<data, jobVars, spawnCtx>>
       ELSE LET j == nspawned + 1 IN
            /\ data' = Some([unwrap(data) EXCEPT !.active_jobs = @ + 1])
            /\ nspawned' = j
            /\ jtlv' = [jtlv EXCEPT ![j] = CarriedTlv(t)]
            /\ jact' = [jact EXCEPT ![j] = cycle]
            /\ ustate' = [ustate EXCEPT ![j] = "pending"]
            /\ pool' = pool \cup {j}
            /\ spawnCtx' = [spawnCtx EXCEPT ![j] = get(t)]
            /\ lastSpawn' = "accepted"
            /\ UNCHANGED <<poisoned, tpc, outcome>>

\* a unit's body, or other code of an idle thread, calls tlv::set(v)
SetTlv(t, v) ==
    /\ InBody(t) \/ tpc[t] = "idle"
    /\ v # TLV[t]
    /\ NoSpawn
    /\ TLV' = set(t, v)
    /\ UNCHANGED <<scopeVars, tpc, cur, saved, tlvLocal, result, jobVars, histVars>>

\* HeapJob::execute before the body: the executing thread's tlv becomes the
\* one the job carries
JobStartTlv(t, j) == set(t, jtlv[j])

\* HeapJob::execute after the body: the executing thread's tlv is put back
JobEndKeepsTlv(t) == TLV
JobEndTlv(t) == set(t, saved[t])

\* a pool thread takes job ref j out of the pool and starts its body
StartJob(t, j) ==
    /\ NoSpawn
    /\ pool' = pool \ {j}
    /\ saved' = [saved EXCEPT ![t] = get(t)]
    /\ TLV' = JobStartTlv(t, j)
    /\ cur' = [cur EXCEPT ![t] = j]
    /\ ustate' = [ustate EXCEPT ![j] = "running"]
    /\ tpc' = [tpc EXCEPT ![t] = "job"]
    /\ UNCHANGED <<scopeVars, tlvLocal, result, jtlv, jact, nspawned, histVars>>

\* the worker's main loop takes a job
WorkerTake(j) ==
    /\ tpc[Worker] = "idle"
    /\ j \in pool
    /\ StartJob(Worker, j)

\* execute_job lines 112-115: the panic slot after a unit that ended ok or not
StoredPanicFirstWins(old, ok, u) == IF ok \/ old # NoPanic THEN old ELSE u
StoredPanicDropped(old, ok, u) == old
StoredPanicCleared(old, ok, u) == IF ok THEN NoPanic ELSE u
StoredPanic(old, ok, u) == IF ok THEN old ELSE u

\* execute_job lines 106-111: the counter and the terminated flag
DecrementMarksEarly(d) ==
    LET n == d.active_jobs - 1 IN
    [d EXCEPT !.active_jobs = n, !.terminated = IF n <= 1 THEN TRUE ELSE @]
Decrement(d) ==
    LET n == d.active_jobs - 1 IN
    [d EXCEPT !.active_jobs = n, !.terminated = IF n = 0 THEN TRUE ELSE @]

\* FlexScope::execute_job, lines 102-116, from the end of the body f: the
\* body of unit cur[t] ended normally (ok) or by a panic
FinishUnit(t, ok) ==
    LET u == cur[t] IN
    /\ InBody(t)
    /\ NoSpawn
    /\ UNCHANGED <<saved, tlvLocal, pool, jact, nspawned, cycle, raised>>
    /\ IF LockFails \/ data = None
       THEN /\ Abort(t)
            /\ poisoned' = TRUE
            /\ outcome' = AbortOutcome(t)
            /\ UNCHANGED <<data, TLV, cur, result, ustate, completions, lastFailed,
                           jtlv, spawnCtx>>
       ELSE /\ data' = Some([Decrement(unwrap(data)) EXCEPT
                              !.panic = StoredPanic(unwrap(data).panic, ok, u)])
            /\ ustate' = [ustate EXCEPT ![u] = IF ok THEN "ok" ELSE "failed"]
            /\ completions' = [completions EXCEPT ![u] = @ + 1]
            /\ lastFailed' = IF ok THEN lastFailed ELSE u
            /\ jtlv' = [jtlv EXCEPT ![u] = 0]              \* the HeapJob is freed
            /\ spawnCtx' = [spawnCtx EXCEPT ![u] = 0]
            /\ cur' = [cur EXCEPT ![t] = NoUnit]
            /\ IF u = 0
               THEN /\ result' = IF ok THEN "some" ELSE "none"
                    /\ tpc' = [tpc EXCEPT ![t] = "wait"]
                    /\ UNCHANGED TLV
               ELSE /\ TLV' = JobEndTlv(t)
                    /\ tpc' = [tpc EXCEPT ![t] = IF t = Owner THEN "wait" ELSE "idle"]
                    /\ UNCHANGED result
            /\ UNCHANGED <<poisoned, outcome>>

\* activate lines 58-61: wait_until(&self) probes the scope and, while the
\* probe is false, runs jobs of the pool on the owner's thread
OwnerWait ==
    /\ tpc[Owner] = "wait"
    /\ IF LockFails \/ data = None
       THEN /\ Abort(Owner)
            /\ poisoned' = TRUE
            /\ outcome' = "aborted"
            /\ NoSpawn
            /\ UNCHANGED <<data, TLV, cur, saved, tlvLocal, result, jobVars, cycle, raised,
                           completions, lastFailed, spawnCtx>>
       ELSE IF probe
       THEN /\ tpc' = [tpc EXCEPT ![Owner] = "drained"]
            /\ NoSpawn
            /\ UNCHANGED <<scopeVars, TLV, cur, saved, tlvLocal, result, jobVars, histVars>>
       ELSE \E j \in pool : StartJob(Owner, j)

\* activate line 64: tlv::set(tlv)
TlvNotRestored(t) == TLV
RestoreTlv(t) == set(t, tlvLocal)

\* activate lines 63-80: restore the tlv, take the panic, deactivate the
\* scope, re-raise the panic or return f's result
ActivateFinish ==
    /\ tpc[Owner] = "drained"
    /\ NoSpawn
    /\ TLV' = RestoreTlv(Owner)
    /\ UNCHANGED <<cur, saved, tlvLocal, result, jobVars, cycle, completions, lastFailed,
                   spawnCtx>>
    /\ IF LockFails \/ data = None
       THEN /\ Abort(Owner)
            /\ poisoned' = TRUE
            /\ outcome' = "aborted"
            /\ UNCHANGED <<data, raised>>
       ELSE /\ data' = None
            /\ UNCHANGED poisoned
            /\ IF unwrap(data).panic # NoPanic
               THEN /\ raised' = unwrap(data).panic
                    /\ outcome' = "reraised"
                    /\ tpc' = [tpc EXCEPT ![Owner] = "exited"]
               ELSE IF result = "some"
               THEN /\ outcome' = "returned"
                    /\ tpc' = [tpc EXCEPT ![Owner] = "exited"]
                    /\ UNCHANGED raised
               ELSE \* result.unwrap() on None panics
                    /\ Abort(Owner)
                    /\ outcome' = "aborted"
                    /\ UNCHANGED raised

\* the caller of activate goes on after activate returned or re-raised; the
\* record of the finished activation is dropped
OwnerContinue ==
    /\ tpc[Owner] = "exited"
    /\ NoSpawn
    /\ tpc' = [tpc EXCEPT ![Owner] = "idle"]
    /\ outcome' = "none"
    /\ raised' = NoPanic
    /\ lastFailed' = NoUnit
    /\ result' = "unset"
    /\ ustate' = [u \in Units |-> IF ustate[u] \in {"ok", "failed"} THEN "none" ELSE ustate[u]]
    /\ completions' = [u \in Units |-> IF ustate[u] \in {"ok", "failed"} THEN 0 ELSE completions[u]]
    /\ UNCHANGED <<scopeVars, TLV, cur, saved, tlvLocal, pool, jtlv, jact, nspawned,
                   cycle, spawnCtx>>

FlexNext ==
    \/ Activate
    \/ \E t \in Threads : Spawn(t)
    \/ \E t \in Threads, v \in Ctx : SetTlv(t, v)
    \/ \E j \in Jobs : WorkerTake(j)
    \/ \E t \in PoolThreads, ok \in BOOLEAN : FinishUnit(t, ok)
    \/ OwnerWait
    \/ ActivateFinish
    \/ OwnerContinue

\* Proxy::acquire_token, lines 129-137: the fast path, or the request and the
\* first cond_var.wait
AcquireToken(t) ==
    /\ ppc[t] = "idle"
    /\ calls[t] < MaxCalls
    /\ calls' = [calls EXCEPT ![t] = @ + 1]
    /\ LET p == [proxy EXCEPT !.waiters = @ + 1]
           r == take_token(p)
           q == IF r.ok THEN r.p ELSE request_token(r.p)
       IN /\ proxy' = q
          /\ brokerPending' = brokerPending + RequestsSent(p, q)
          /\ ppc' = [ppc EXCEPT ![t] = IF r.ok THEN "holding" ELSE "waiting"]
    /\ UNCHANGED <<flexVars, otherVars>>

\* Proxy::acquire_token, lines 138-143: a woken thread has the lock again and
\* retries take_token
WakeRetake(t) ==
    /\ ppc[t] = "woken"
    /\ LET r == take_token(proxy)
       IN /\ proxy' = r.p
          /\ brokerPending' = brokerPending + RequestsSent(proxy, r.p)
          /\ ppc' = [ppc EXCEPT ![t] = IF r.ok THEN "holding" ELSE "waiting"]
    /\ UNCHANGED <<flexVars, otherVars, calls>>

\* Condvar::wait may return without a notification
SpuriousWake(t) ==
    /\ ppc[t] = "waiting"
    /\ ppc' = [ppc EXCEPT ![t] = "woken"]
    /\ UNCHANGED <<flexVars, otherVars, proxy, brokerPending, calls>>

\* Proxy::return_token, lines 123-127, by a thread that holds a permit
ReturnToken(t) ==
    /\ ppc[t] = "holding"
    /\ proxy' = return_token(proxy)
    /\ LET pc == [ppc EXCEPT ![t] = "idle"]
       IN ppc' \in (IF return_token_notifies(proxy) THEN NotifyOne(pc) ELSE {pc})
    /\ UNCHANGED <<flexVars, otherVars, brokerPending, calls>>

\* the helper thread's callback of from_env, lines 105-107: the broker
\* grants one requested token
Grant ==
    /\ brokerPending > 0
    /\ brokerPending' = brokerPending - 1
    /\ proxy' = new_requested_token(proxy)
    /\ ppc' \in (IF new_requested_token_notifies(proxy) THEN NotifyOne(ppc) ELSE {ppc})
    /\ UNCHANGED <<flexVars, otherVars, calls>>

ProxyNext ==
    \/ \E t \in PThreads : AcquireToken(t)
    \/ \E t \in PThreads : WakeRetake(t)
    \/ \E t \in PThreads : SpuriousWake(t)
    \/ \E t \in PThreads : ReturnToken(t)
    \/ Grant

(* ------------------------------ tlv::with ------------------------------ *)
Depth(t) == Len(frames[t])
Top(t) == frames[t][Depth(t)]
Pop(q) == SubSeq(q, 1, Len(q) - 1)

\* steps of tlv::with leave everything else alone
TlvFrame == UNCHANGED <<flexButTlv, proxyVars, localVars, envVars>>

\* Drop for Reset, lines 13-17: set(self.0); the guard is dropped when f
\* returns and when a panic unwinds through with()
DropResetOnReturnOnly(t, how) == IF how = "return" THEN set(t, Top(t).reset) ELSE TLV
DropReset(t, how) == set(t, Top(t).reset)

\* with(value, f) up to the call of f, lines 18-19:
\* let _reset = Reset(get()); set(value)
WithEnter(t, value) ==
    /\ ~unwinding[t]
    /\ Depth(t) < MaxDepth
    /\ frames' = [frames EXCEPT ![t] = Append(@, [reset |-> get(t), value |-> value])]
    /\ entryTlv' = [entryTlv EXCEPT ![t] = Append(@, TLV[t])]
    /\ TLV' = set(t, value)
    /\ lastExit' = "none"
    /\ UNCHANGED unwinding
    /\ TlvFrame

\* user code of thread t, inside or outside a with() call, calls set
WithSet(t, value) ==
    /\ ~unwinding[t]
    /\ value # TLV[t]
    /\ TLV' = set(t, value)
    /\ lastExit' = "none"
    /\ UNCHANGED <<frames, entryTlv, unwinding>>
    /\ TlvFrame

\* the innermost with() of thread t ends, line 20-21: f returns, or f panics
\* (or a panic of a nested call goes on unwinding); _reset is dropped
WithExit(t, how) ==
    /\ Depth(t) > 0
    /\ how = "return" => ~unwinding[t]
    /\ TLV' = DropReset(t, how)
    /\ frames' = [frames EXCEPT ![t] = Pop(@)]
    /\ entryTlv' = [entryTlv EXCEPT ![t] = Pop(@)]
    /\ unwinding' = [unwinding EXCEPT ![t] = (how = "panic")]
    /\ lastExit' = how
    /\ TlvFrame

\* a caller catches the panic (unwind::halt_unwinding); the thread goes on
Catch(t) ==
    /\ unwinding[t]
    /\ unwinding' = [unwinding EXCEPT ![t] = FALSE]
    /\ lastExit' = "none"
    /\ UNCHANGED <<TLV, frames, entryTlv>>
    /\ TlvFrame

TlvNext ==
    \/ \E t \in PoolThreads, v \in Ctx : WithEnter(t, v)
    \/ \E t \in PoolThreads, v \in Ctx : WithSet(t, v)
    \/ \E t \in PoolThreads, how \in {"return", "panic"} : WithExit(t, how)
    \/ \E t \in PoolThreads : Catch(t)

(* ---------------------------- worker_local.rs -------------------------- *)
\* WorkerThread::current() of thread t is null
is_null(t) == t = NonWorker

\* Registry::current(): the registry of the calling worker, else the global one
RegistryCurrent(t) == IF is_null(t) THEN GlobalRegistry ELSE t.registry

\* Registry::num_threads
num_threads(r) == PoolSize

\* thread_check, lines 29-39: the worker's index, or wrong_thread()
thread_check_any_pool(t, reg) == IF is_null(t) THEN WrongThread ELSE t.index
thread_check(t, reg) ==
    IF is_null(t) \/ t.registry # reg THEN WrongThread ELSE t.index

\* slot i of locals holds initial(i), lines 47-52; the model's initial(i) is i
WorkerLocalNew(t) ==
    LET registry == RegistryCurrent(t) IN
    [registry |-> registry,
     locals |-> [i \in 1..num_threads(registry) |-> i - 1]]

\* locals.get_unchecked(idx), line 64: undefined when idx is out of range
get_unchecked(locals, idx) ==
    IF idx + 1 \in DOMAIN locals THEN {locals[idx + 1]}
    ELSE {WrongThread} \cup 0..(PoolSize - 1)

\* current(), lines 61-66: what the call gives the caller
CurrentOutcomes(t, w) ==
    LET idx == thread_check(t, w.registry) IN
    IF idx = WrongThread THEN {WrongThread} ELSE get_unchecked(w.locals, idx)

LocalFrame == UNCHANGED <<flexVars, proxyVars, tlvVars, envVars>>

\* WorkerLocal::new called on thread t builds storage s
New(t, s) ==
    /\ wl[s] = None
    /\ wl' = [wl EXCEPT ![s] = Some(WorkerLocalNew(t))]
    /\ UNCHANGED got
    /\ LocalFrame

\* thread t dereferences storage s
Current(t, s) ==
    /\ wl[s] # None
    /\ \E r \in CurrentOutcomes(t, unwrap(wl[s])) :
          got' = [got EXCEPT ![t][s] = r]
    /\ UNCHANGED wl
    /\ LocalFrame

\* into_inner / join consume the storage, lines 57-59 and 71-73
IntoInner(s) ==
    /\ wl[s] # None
    /\ wl' = [wl EXCEPT ![s] = None]
    /\ got' = [t \in LThreads |-> [got[t] EXCEPT ![s] = NoCall]]
    /\ LocalFrame

LocalNext ==
    \/ \E t \in LThreads, s \in Storages : New(t, s)
    \/ \E t \in LThreads, s \in Storages : Current(t, s)
    \/ \E s \in Storages : IntoInner(s)

(* ------------------------- jobserver.rs: from_env ---------------------- *)
\* Weak::upgrade: an Arc while the strong count is not 0
upgrade(w) == IF w # None /\ strong[unwrap(w)] > 0 THEN w ELSE None

\* the Proxy instances that exist: created and their destructor not finished
Existing == {p \in ProxyIds : pstate[p] \in {"alive", "dropping"}}

\* the helper threads: started at line 104, stopped by the drop of Proxy.thread
Helpers == Existing

EnvFrame == UNCHANGED <<flexVars, proxyVars, tlvVars, localVars>>

\* Proxy::from_env, lines 93-114, under the lock of CURRENT_PROXY
FromEnv(t) ==
    /\ envpc[t] = "idle"
    /\ held[t] = NoProxy
    /\ LET current == upgrade(CURRENT_PROXY) IN
       IF current # None
       THEN /\ held' = [held EXCEPT ![t] = unwrap(current)]
            /\ strong' = [strong EXCEPT ![unwrap(current)] = @ + 1]
            /\ UNCHANGED <<CURRENT_PROXY, pstate>>
       ELSE /\ \E p \in ProxyIds : pstate[p] = "none"
            /\ LET proxyId == CHOOSE p \in ProxyIds :
                                 /\ pstate[p] = "none"
                                 /\ \A q \in ProxyIds : pstate[q] = "none" => p <= q
               IN /\ pstate' = [pstate EXCEPT ![proxyId] = "alive"]
                  /\ strong' = [strong EXCEPT ![proxyId] = 1]
                  /\ CURRENT_PROXY' = Some(proxyId)
                  /\ held' = [held EXCEPT ![t] = proxyId]
    /\ UNCHANGED envpc
    /\ EnvFrame

\* thread t drops its Arc<Proxy>: the strong count goes down; the thread that
\* takes it to 0 then runs the destructor of the Proxy
DropHandle(t) ==
    /\ envpc[t] = "idle"
    /\ held[t] # NoProxy
    /\ strong' = [strong EXCEPT ![held[t]] = @ - 1]
    /\ IF strong[held[t]] = 1
       THEN /\ pstate' = [pstate EXCEPT ![held[t]] = "dropping"]
            /\ envpc' = [envpc EXCEPT ![t] = "dropping"]
            /\ UNCHANGED held
       ELSE /\ held' = [held EXCEPT ![t] = NoProxy]
            /\ UNCHANGED <<pstate, envpc>>
    /\ UNCHANGED CURRENT_PROXY
    /\ EnvFrame

\* the destructor of the Proxy ends: its HelperThread is stopped and joined
DropFinish(t) ==
    /\ envpc[t] = "dropping"
    /\ pstate' = [pstate EXCEPT ![held[t]] = "dropped"]
    /\ held' = [held EXCEPT ![t] = NoProxy]
    /\ envpc' = [envpc EXCEPT ![t] = "idle"]
    /\ UNCHANGED <<CURRENT_PROXY, strong>>
    /\ EnvFrame

EnvNext ==
    \/ \E t \in PThreads : FromEnv(t)
    \/ \E t \in PThreads : DropHandle(t)
    \/ \E t \in PThreads : DropFinish(t)

Next == FlexNext

\* the scope with its threads

Spec == Init /\ [][Next]_vars

\* the scope under fair scheduling: every body ends, the pool runs every job
\* it was handed, and the owner's thread goes on
FlexFairSpec ==
    /\ Spec
    /\ \A t \in PoolThreads : WF_vars(\E ok \in BOOLEAN : FinishUnit(t, ok))
    /\ WF_vars(\E j \in Jobs : WorkerTake(j))
    /\ WF_vars(OwnerWait)
    /\ WF_vars(ActivateFinish)

\* tlv::with and tlv::set on the pool's threads
TlvSpec == Init /\ [][TlvNext]_vars

\* worker-local storages and the threads of two registries
LocalSpec == Init /\ [][LocalNext]_vars

\* Proxy::from_env and the handles it gives out
EnvSpec == Init /\ [][EnvNext]_vars

\* the token proxy with its threads
ProxySpec == Init /\ [][ProxyNext]_vars

\* the same under fair scheduling: a woken thread gets the lock again, and
\* the broker answers every outstanding request
ProxyFairSpec ==
    /\ ProxySpec
    /\ \A t \in PThreads : WF_vars(WakeRetake(t))
    /\ WF_vars(Grant)

(* ------------------------------ properties ----------------------------- *)
\* activate reached its end: it returned f's result or re-raised a stored panic
Exited == tpc[Owner] = "exited"

\* the units of the current activation: f and the jobs spawned into it
ActUnits == {0} \cup {j \in Jobs : j <= nspawned /\ jact[j] = cycle}
Finished(u) == ustate[u] \in {"ok", "failed"}
FailedUnits == {u \in ActUnits : ustate[u] = "failed"}
Holders == {t \in PThreads : ppc[t] = "holding"}
Blocked(t) == ppc[t] \in {"waiting", "woken"}

\* C1: when activate returns or re-raises, f and every job spawned into the
\* activation has completed exactly once, none is pending or running, and
\* the counter had reached 0 when the wait ended.
ActivateDrainsAllJobs ==
    /\ Exited =>
          /\ \A u \in ActUnits : Finished(u) /\ completions[u] = 1
          /\ pool = {}
          /\ \A t \in Threads : cur[t] = NoUnit
    /\ (tpc[Owner] = "drained" /\ data # None) => unwrap(data).active_jobs = 0

WitnessActivateDrainsAllJobs ==
    /\ Exited
    /\ Cardinality(ActUnits) = MaxJobs + 1
    /\ \A u \in ActUnits : completions[u] = 1

\* C2: once the activation is terminated, a spawn call is rejected: the call
\* panics, active_jobs is not incremented and no job reaches the pool.
SpawnAfterTerminatedRejected ==
    [][(data # None /\ unwrap(data).terminated /\ lastSpawn' # "none")
          => /\ lastSpawn' \in {"terminated", "poisoned"}
             /\ data' = data
             /\ pool' = pool
             /\ nspawned' = nspawned
             /\ ustate' = ustate]_vars

WitnessSpawnAfterTerminatedRejected ==
    /\ lastSpawn = "terminated"
    /\ data # None
    /\ unwrap(data).terminated
    /\ unwrap(data).active_jobs = 0

\* C3: if exactly one spawned job fails and f and all other jobs succeed,
\* activate re-raises that job's failure, with every other unit completed.
OneFailedJobIsReraised ==
    \A j \in Jobs :
        (Exited /\ FailedUnits = {j})
            => /\ outcome = "reraised"
               /\ raised = j
               /\ \A u \in ActUnits \ {j} : ustate[u] = "ok" /\ completions[u] = 1

WitnessOneFailedJobIsReraised ==
    /\ Exited
    /\ \E j \in Jobs : FailedUnits = {j} /\ raised = j
    /\ Cardinality(ActUnits) >= 3

\* C4: if two or more units of the activation fail, activate re-raises
\* exactly one failure, the payload of one of the units that failed.
OneOfSeveralFailuresIsReraised ==
    (Exited /\ Cardinality(FailedUnits) >= 2)
        => /\ outcome = "reraised"
           /\ raised \in FailedUnits

WitnessOneOfSeveralFailuresIsReraised ==
    /\ Exited
    /\ Cardinality(FailedUnits) >= 2
    /\ outcome = "reraised"

\* C5 as stated: if f fails, the failure activate re-raises is f's.
InitialClosureFailureWins ==
    (Exited /\ ustate[0] = "failed") => (outcome = "reraised" /\ raised = 0)

\* C5 amended: if f fails, activate re-raises a failure, and it is the failure
\* of the unit that failed last under the lock: f's own only when no job of
\* the activation fails after f.
LastFailureWins ==
    (Exited /\ ustate[0] = "failed")
        => /\ outcome = "reraised"
           /\ raised = lastFailed
           /\ raised \in FailedUnits

WitnessLastFailureWins ==
    /\ Exited
    /\ ustate[0] = "failed"
    /\ raised \in Jobs

\* C6: a job carries the context snapshotted by activate, and its body starts
\* with the executing thread's context equal to it.
JobStartsWithCapturedContext ==
    [][\A t \in PoolThreads :
          (cur'[t] \in Jobs /\ cur[t] # cur'[t])
              => /\ jtlv[cur'[t]] = tlvLocal
                 /\ TLV'[t] = tlvLocal]_vars

WitnessJobStartsWithCapturedContext ==
    \E j \in Jobs :
        /\ cur[Worker] = j
        /\ ustate[j] = "running"
        /\ TLV[Worker] = tlvLocal
        /\ saved[Worker] # tlvLocal
        /\ spawnCtx[j] # tlvLocal

ActivateRestoresContext ==
    Exited => TLV[Owner] = tlvLocal

WitnessActivateRestoresContext ==
    /\ Exited
    /\ cycle = 1
    /\ tlvLocal = 0
    /\ saved[Owner] = 1
    /\ TLV[Owner] = 0

\* C9: the threads that hold a permit are at most 1 plus the broker tokens the
\* proxy holds, and a thread gets a permit only by taking a free one.
PermitsBounded ==
    /\ [](Cardinality(Holders) <= 1 + Len(proxy.tokens))
    /\ [][\A t \in PThreads :
             (ppc[t] # "holding" /\ ppc'[t] = "holding")
                 => (proxy.free >= 1 /\ proxy'.free = proxy.free - 1)]_vars

WitnessPermitsBounded ==
    /\ proxy.free = 0
    /\ Cardinality(Holders) = 2
    /\ Len(proxy.tokens) = 1
    /\ \E t \in PThreads : Blocked(t)

\* C10: under fair scheduling and a broker that answers every request, every
\* thread blocked in acquire_token eventually gets its permit.
AcquireEventuallyReturns ==
    \A t \in PThreads : Blocked(t) ~> (ppc[t] = "holding")

WitnessAcquireEventuallyReturns ==
    /\ ppc[Main] = "holding"
    /\ calls[Main] = 0
    /\ \E t \in PThreads \ {Main} : ppc[t] = "holding"
    /\ Len(proxy.tokens) = 1

\* threads blocked in cond_var.wait that the step wakes
WokenByStep == {w \in PThreads : ppc[w] = "waiting" /\ ppc'[w] = "woken"}

\* a step in which some thread's return_token runs while waiters > 0
ReturnWithWaiters ==
    /\ proxy.waiters > 0
    /\ \E t \in PThreads : ppc[t] = "holding" /\ ppc'[t] = "idle"

\* C11 as stated: return_token with waiters > 0 adds one free permit, wakes
\* exactly one waiting thread, sends no request and releases no held token.
ReturnWakesExactlyOne ==
    [][ReturnWithWaiters
          => /\ proxy'.free = proxy.free + 1
             /\ Cardinality(WokenByStep) = 1
             /\ brokerPending' = brokerPending
             /\ proxy'.requested = proxy.requested
             /\ proxy'.tokens = proxy.tokens]_vars

\* C11 amended: return_token with waiters > 0 adds one free permit, sends no
\* request, releases no held token and notifies once: it wakes one thread
\* blocked in the wait when there is one, and none when every counted waiter
\* has been woken already.
ReturnNotifiesOnce ==
    [][ReturnWithWaiters
          => /\ proxy'.free = proxy.free + 1
             /\ Cardinality(WokenByStep) =
                    (IF \E w \in PThreads : ppc[w] = "waiting" THEN 1 ELSE 0)
             /\ brokerPending' = brokerPending
             /\ proxy'.requested = proxy.requested
             /\ proxy'.tokens = proxy.tokens
             /\ proxy'.waiters = proxy.waiters]_vars

WitnessReturnNotifiesOnce ==
    /\ proxy.waiters > 0
    /\ proxy.free >= 2
    /\ \A t \in PThreads : ppc[t] # "waiting"
    /\ \E t \in PThreads : ppc[t] = "woken"
    /\ Len(proxy.tokens) = 1

\* C16 as stated: after every request sent to the broker the outstanding
\* requests do not exceed the waiting threads.
RequestsNeverExceedWaiters ==
    [][brokerPending' > brokerPending => proxy'.requested <= proxy'.waiters]_vars

\* C18: every thread counted in waiters is covered by a free permit or by an
\* outstanding request.
WaitersAreCovered ==
    proxy.requested + proxy.free >= proxy.waiters

WitnessWaitersAreCovered ==
    /\ proxy.waiters = 1
    /\ proxy.requested = 1
    /\ proxy.free = 0
    /\ Len(proxy.tokens) = 1
    /\ Cardinality(Holders) = 2
    /\ \E t \in PThreads : ppc[t] = "woken"

\* C19 as stated: in a quiescent state the proxy holds no broker token and
\* only the implicit permit is free.
QuiescentHoldsNoToken ==
    (Holders = {} /\ proxy.waiters = 0 /\ proxy.requested = 0)
        => (proxy.tokens = <<>> /\ proxy.free = 1)

\* the scope is active and marked terminated
Terminated(d) == d # None /\ unwrap(d).terminated
ActiveJobs(d) == unwrap(d).active_jobs
InActivate == tpc[Owner] \in {"f", "job", "wait", "drained"}

\* C13 as stated: with bodies that end and a pool that runs every job,
\* activate eventually stops waiting and returns or re-raises.
ActivateEventuallyExits ==
    InActivate ~> Exited

\* C17: terminated becomes true exactly at the decrement that brings
\* active_jobs to 0, and until the owner clears the state it stays true and
\* active_jobs stays 0.
TerminatedExactlyAtZero ==
    /\ [](data # None => (unwrap(data).terminated <=> ActiveJobs(data) = 0))
    /\ [][/\ (~Terminated(data) /\ Terminated(data'))
                => /\ data # None
                   /\ ActiveJobs(data) = 1
                   /\ ActiveJobs(data') = 0
                   /\ \E t \in PoolThreads : cur[t] # NoUnit /\ cur'[t] = NoUnit
          /\ Terminated(data)
                => \/ Terminated(data') /\ ActiveJobs(data') = 0
                   \/ /\ data' = None
                      /\ tpc[Owner] = "drained"
                      /\ tpc'[Owner] = "exited"]_vars

WitnessTerminatedExactlyAtZero ==
    /\ Terminated(data)
    /\ ActiveJobs(data) = 0
    /\ tpc[Owner] = "wait"
    /\ Cardinality(ActUnits) = MaxJobs + 1
    /\ \A u \in ActUnits : Finished(u)

\* C20 as stated: a rejected spawn or activate call leaves the scope's state
\* as it was and never makes the owner's activate, or a later activation,
\* fail.
RejectedCallFailsOnlyItself ==
    /\ [][lastSpawn' \in {"not_active", "terminated"} => data' = data]_vars
    /\ [](tpc[Owner] # "aborted")

\* C12 as stated: at most one Proxy made by from_env exists at a time (a new
\* one is created only after the previous one is fully dropped), hence at
\* most one helper thread, and all handles point to the one instance.
OneProxyAtATime ==
    /\ Cardinality(Existing) <= 1
    /\ Cardinality(Helpers) <= 1
    /\ \A t, u \in PThreads :
          (envpc[t] = "idle" /\ envpc[u] = "idle" /\ held[t] # NoProxy /\ held[u] # NoProxy)
              => held[t] = held[u]

\* C14: on the storage's own pool current() gives worker i slot i, so two
\* workers never get the same slot; on any other thread it ends in
\* wrong_thread().
CurrentGivesOwnSlot ==
    \A s \in Storages : wl[s] # None =>
        /\ \A t \in LThreads : got[t][s] # NoCall =>
              IF t \in LWorkers /\ t.registry = unwrap(wl[s]).registry
              THEN got[t][s] = t.index /\ unwrap(wl[s]).locals[got[t][s] + 1] = t.index
              ELSE got[t][s] = WrongThread
        /\ \A t, u \in LThreads :
              (t # u /\ got[t][s] >= 0 /\ got[u][s] >= 0) => got[t][s] # got[u][s]

WitnessCurrentGivesOwnSlot ==
    \E s \in Storages :
        /\ wl[s] # None
        /\ unwrap(wl[s]).registry = "B"
        /\ \A t \in LThreads : got[t][s] # NoCall
        /\ \E t \in LWorkers : got[t][s] = PoolSize - 1
        /\ got[NonWorker][s] = WrongThread

\* C15: with(value, f) starts f with the context value, and when it ends,
\* by return or by a panic, the thread's context is the one from before the
\* call, whatever f set or nested; no step changes another thread's context.
WithRestoresContext ==
    [][\A t \in Threads :
          /\ Depth(t)' > Depth(t) => TLV'[t] = Top(t)'.value
          /\ Depth(t)' < Depth(t) => TLV'[t] = entryTlv[t][Len(entryTlv[t])]
          /\ TLV'[t] # TLV[t] => \A u \in Threads \ {t} :
                TLV'[u] = TLV[u] /\ frames'[u] = frames[u]]_vars

WitnessWithRestoresContext ==
    /\ lastExit = "panic"
    /\ \E t \in PoolThreads :
          /\ unwinding[t]
          /\ Depth(t) = 1
          /\ Top(t).value = 0
          /\ Top(t).reset = 1
          /\ TLV[t] = 1
          /\ \E u \in PoolThreads \ {t} : Depth(u) = MaxDepth /\ TLV[u] = 0

====
